---- MODULE Spec2Model ----
(***************************************************************************)
(* A model of the e-ring crate: the fixed-capacity ring buffer Ring<T, N> *)
(* (ring.rs), its oldest-to-newest iterator, the one-pass range finder    *)
(* and the rescale iterator (rescale.rs), the average and the variance    *)
(* (avg_std.rs) and the histogram's draw_lines (hist.rs).                 *)
(*                                                                         *)
(* The element type T is i16, the type the crate's own rescale test and   *)
(* the histogram use.  f32 values are modelled as exact rationals plus    *)
(* NaN and the two infinities: the rounding of f32 is not modelled, the   *)
(* special values and every integer operation are.                        *)
(***************************************************************************)
EXTENDS Integers, Sequences, FiniteSets, TLC

VARIABLES
    N,          \* the const generic N of Ring<T, N>
    ring,       \* the Ring: [data, next, len]
    it,         \* the RingIterator the caller holds: [live, start, count]
    resc,       \* the RescaleIterator wrapped around `it`: [live, current, desired]
    ret,        \* what the last operation returned
    appended,   \* history: every value append() has stored, in order
    yielded,    \* history: what the live iterator has returned as Some, in order
    panicked    \* the program has panicked (the thread unwinds, nothing runs after)

vars == <<N, ring, it, resc, ret, appended, yielded, panicked>>

(***************************************************************************)
(* Bounds of the model.                                                    *)
(***************************************************************************)
\* capacities 0..MaxN are explored
MaxN == 3
\* appends per run under Spec: more than twice MaxN, so the cursor wraps several times
MaxAppends == 7
\* appends per run under SpecRescale
MaxRescaleAppends == 3
\* appends under SpecAvg beyond the first 2^16
MaxAvgAppends == 1
\* appends per run under SpecHist
MaxHistAppends == 3
\* appends per run under SpecFrame: more than MaxN, so the cursor wraps
MaxFrameAppends == 4

(***************************************************************************)
(* The element type: i16.                                                  *)
(***************************************************************************)
TMin == -32768
TMax == 32767
TModulus == 65536

\* T::default() of an integer type
Default == 0

\* the values the callers of Spec append
CoreVals == {-1, 0, 1}

\* the values the callers of SpecAvg append
AvgVals == {1, 3}

\* the values the callers of SpecRescale append and use as source bounds
RescaleVals == {TMin, 100, 200, 300}

Min(a, b) == IF a < b THEN a ELSE b

\* Option<T> / Option<f32> / Option<Range<T>> share one shape per payload type
None == [some |-> FALSE]
Some(v) == [some |-> TRUE, v |-> v]

(***************************************************************************)
(* ring.rs                                                                 *)
(***************************************************************************)
\* the function f on 1 .. n as a sequence value
Array(f) == SubSeq(f, 1, Len(f))

\* self.data.len(): the length of the array [T; N].  The array is kept as a
\* sequence, so slot i of the array (counted from 0) is the (i + 1)-th entry
data_len(r) == Len(r.data)

\* self.data[i]
slot(r, i) == r.data[i + 1]

\* Ring::new
new(n) == [data |-> Array([i \in 1 .. n |-> Default]), next |-> 0, len |-> 0]

\* a mutant of increment_next: the cursor wraps one slot too late
increment_next_late(r) == [r EXCEPT !.next = (r.next + 1) % (data_len(r) + 1)]

\* Ring::increment_next
increment_next(r) == [r EXCEPT !.next = (r.next + 1) % data_len(r)]

\* the bounds check of self.data[self.next] = el: an index outside the array panics
append_panics(r) == ~(r.next < data_len(r))

\* a mutant of append: the length is not capped at the capacity
append_unsaturated(r, el) ==
    LET r1 == [r EXCEPT !.data[r.next + 1] = el]
        r2 == [r1 EXCEPT !.len = r1.len + 1]
    IN  increment_next(r2)

\* a mutant of append: the write cursor is not advanced
append_no_advance(r, el) ==
    LET r1 == [r EXCEPT !.data[r.next + 1] = el]
    IN  [r1 EXCEPT !.len = Min(data_len(r1), r1.len + 1)]

\* Ring::append, when the index is in bounds
append(r, el) ==
    LET r1 == [r EXCEPT !.data[r.next + 1] = el]
        r2 == [r1 EXCEPT !.len = Min(data_len(r1), r1.len + 1)]
    IN  increment_next(r2)

\* Ring::len
len(r) == r.len

\* Ring::is_empty
is_empty(r) == r.len = 0

\* Ring::size
size(n) == n

\* a mutant of last: the wrapped cursor reads slot 0 instead of slot N - 1
last_no_wrap(r) ==
    IF r.len = 0 THEN None
    ELSE IF r.next = 0 THEN Some(slot(r, 0))
    ELSE Some(slot(r, r.next - 1))

\* Ring::last
last(r) ==
    IF r.len = 0 THEN None
    ELSE IF r.next = 0 THEN Some(slot(r, data_len(r) - 1))
    ELSE Some(slot(r, r.next - 1))

\* a mutant of iter: the iteration always starts at slot 0
iter_from_zero(r) == [live |-> TRUE, start |-> 0, count |-> 0]

\* a mutant of iter: on a full ring the iteration starts one slot after the cursor
iter_after_cursor(r) ==
    [live |-> TRUE,
     start |-> IF len(r) = data_len(r) /\ len(r) > 0
               THEN (r.next + 1) % data_len(r)
               ELSE 0,
     count |-> 0]

\* Ring::iter
iter(r) ==
    [live |-> TRUE,
     start |-> IF len(r) = data_len(r) THEN r.next ELSE 0,
     count |-> 0]

\* no iterator is held
NoIter == [live |-> FALSE, start |-> 0, count |-> 0]

\* a mutant of next: an exhausted iterator starts over
iter_next_restart(i, r) ==
    LET l == len(r)
    IN  IF i.count = l
        THEN [result |-> None, iter |-> [i EXCEPT !.count = 0]]
        ELSE LET current_index == (i.start + i.count) % l
             IN  [result |-> Some(slot(r, current_index)),
                  iter |-> [i EXCEPT !.count = i.count + 1]]

\* a mutant of current_index: the index is one slot ahead
current_index_ahead(i, r) == (i.start + i.count + 1) % len(r)

\* `let current_index = (self.start + self.count) % len;` of RingIterator::next
current_index(i, r) == (i.start + i.count) % len(r)

\* RingIterator::next: the returned Option<T> and the iterator after the call
iter_next(i, r) ==
    LET l == len(r)
    IN  IF i.count = l
        THEN [result |-> None, iter |-> i]
        ELSE [result |-> Some(slot(r, current_index(i, r))),
              iter |-> [i EXCEPT !.count = i.count + 1]]

\* the whole iteration `for el in self.iter()`: next() until it returns None
RECURSIVE drain(_, _)
drain(i, r) ==
    LET step == iter_next(i, r)
    IN  IF step.result.some
        THEN <<step.result.v>> \o drain(step.iter, r)
        ELSE <<>>

\* self.iter() consumed to the end
iter_all(r) == drain(iter(r), r)

(***************************************************************************)
(* rescale.rs: FindRange                                                   *)
(***************************************************************************)
\* Range<T>
Range(lo, hi) == [min |-> lo, max |-> hi]

\* the body of `for el in iter`: strict comparisons, min first, then max
range_update(min_max, el) ==
    LET m1 == IF min_max.min > el THEN [min_max EXCEPT !.min = el] ELSE min_max
    IN  IF m1.max < el THEN [m1 EXCEPT !.max = el] ELSE m1

\* `for el in iter { ... }` of range(): the rest of the iterator, folded into min_max
RECURSIVE range_loop(_, _, _)
range_loop(i, r, min_max) ==
    LET step == iter_next(i, r)
    IN  IF step.result.some
        THEN range_loop(step.iter, r, range_update(min_max, step.result.v))
        ELSE min_max

\* a mutant of range: the min/max is taken over the backing array, not over
\* the iterator
RECURSIVE range_slots(_, _, _)
range_slots(r, k, min_max) ==
    IF k = data_len(r) THEN min_max
    ELSE range_slots(r, k + 1, range_update(min_max, slot(r, k)))

range_over_data(r) ==
    IF len(r) = 0 THEN None
    ELSE Some(range_slots(r, 0, Range(slot(r, 0), slot(r, 0))))

\* FindRange::range for Ring
range(r) ==
    IF len(r) = 0 THEN None
    ELSE LET step == iter_next(iter(r), r)
             first == step.result.v
         IN  Some(range_loop(step.iter, r, Range(first, first)))

(***************************************************************************)
(* f32: a finite value is the exact rational n/d in lowest terms with      *)
(* d > 0; the other values are NaN, +infinity and -infinity.  A zero       *)
(* divisor is always +0.0 here (it comes from an integer conversion or     *)
(* from x - x), so the sign of zero is not modelled.                       *)
(***************************************************************************)
Abs(x) == IF x < 0 THEN -x ELSE x

RECURSIVE GCD(_, _)
GCD(a, b) == IF b = 0 THEN a ELSE GCD(b, a % b)

\* the finite f32 n/d (d # 0), normalised
Fin(n, d) ==
    LET g == GCD(Abs(n), Abs(d))
        s == IF d < 0 THEN -1 ELSE 1
    IN  [k |-> "fin", n |-> s * (n \div g), d |-> s * (d \div g)]

NaN == [k |-> "nan", n |-> 0, d |-> 1]
PInf == [k |-> "pinf", n |-> 0, d |-> 1]
NInf == [k |-> "ninf", n |-> 0, d |-> 1]

\* f32::is_nan
is_nan(a) == a.k = "nan"

is_inf(a) == a.k \in {"pinf", "ninf"}

\* -1, 0 or 1
f_sign(a) ==
    CASE a.k = "pinf" -> 1
      [] a.k = "ninf" -> -1
      [] OTHER -> IF a.n > 0 THEN 1 ELSE IF a.n < 0 THEN -1 ELSE 0

f_neg(a) ==
    CASE a.k = "pinf" -> NInf
      [] a.k = "ninf" -> PInf
      [] a.k = "nan" -> NaN
      [] OTHER -> [a EXCEPT !.n = -a.n]

\* f32 + f32
f_add(a, b) ==
    IF is_nan(a) \/ is_nan(b) THEN NaN
    ELSE IF is_inf(a) THEN (IF is_inf(b) /\ a.k # b.k THEN NaN ELSE a)
    ELSE IF is_inf(b) THEN b
    ELSE LET g == GCD(a.d, b.d)
         IN  Fin(a.n * (b.d \div g) + b.n * (a.d \div g), (a.d \div g) * b.d)

\* f32 - f32
f_sub(a, b) == f_add(a, f_neg(b))

\* f32 * f32
f_mul(a, b) ==
    IF is_nan(a) \/ is_nan(b) THEN NaN
    ELSE IF is_inf(a) \/ is_inf(b)
    THEN (IF f_sign(a) * f_sign(b) = 0 THEN NaN
          ELSE IF f_sign(a) * f_sign(b) > 0 THEN PInf ELSE NInf)
    ELSE LET g1 == GCD(Abs(a.n), b.d)
             g2 == GCD(Abs(b.n), a.d)
         IN  Fin((a.n \div g1) * (b.n \div g2), (a.d \div g2) * (b.d \div g1))

\* f32 / f32
f_div(a, b) ==
    IF is_nan(a) \/ is_nan(b) THEN NaN
    ELSE IF is_inf(a)
    THEN (IF is_inf(b) THEN NaN
          ELSE IF f_sign(b) < 0 THEN f_neg(a) ELSE a)
    ELSE IF is_inf(b) THEN Fin(0, 1)
    ELSE IF b.n = 0
    THEN (IF a.n = 0 THEN NaN ELSE IF a.n > 0 THEN PInf ELSE NInf)
    ELSE f_mul(a, Fin(b.d, b.n))

\* <i16 as Into<f32>>::into: every i16 is an f32, exactly
into_f32(x) == Fin(x, 1)

\* the f32 literal 0.5
Half == Fin(1, 2)

(***************************************************************************)
(* Arithmetic in T = i16: a result outside TMin..TMax overflows; with      *)
(* overflow checks on (a debug build) that panics, with them off (a        *)
(* release build) it wraps.                                                *)
(***************************************************************************)
in_T(x) == TMin <= x /\ x <= TMax

wrap_T(x) == ((x - TMin) % TModulus) + TMin

(***************************************************************************)
(* rescale.rs: Range::delta, rescaled_iter and RescaleIterator             *)
(***************************************************************************)
\* Range::delta overflows T
delta_overflows(rg) == ~in_T(rg.max - rg.min)

\* Range::delta: self.max - self.min in T (the wrapped value when it overflows)
delta(rg) == wrap_T(rg.max - rg.min)

\* Ring::rescaled_iter
rescaled_iter(r, current, desired) ==
    [live |-> TRUE, current |-> current, desired |-> desired]

\* the closure of RescaleIterator::next, when no subtraction panics
rescale(el, current, desired) ==
    LET zero_one0 == f_div(f_sub(into_f32(el), into_f32(current.min)),
                           into_f32(delta(current)))
        zero_one == IF is_nan(zero_one0) THEN Half ELSE zero_one0
    IN  f_add(f_mul(zero_one, into_f32(delta(desired))), into_f32(desired.min))

\* the closure panics: a delta() overflows and the build checks overflow
rescale_panics(current, desired, overflow_checks) ==
    overflow_checks /\ (delta_overflows(current) \/ delta_overflows(desired))

\* a mutant of rescale_next: the underlying iterator is advanced once too often
rescale_next_skip(rs, i, r) ==
    LET step == iter_next([i EXCEPT !.count = Min(i.count + 1, len(r))], r)
    IN  [result |-> IF step.result.some
                    THEN Some(rescale(step.result.v, rs.current, rs.desired))
                    ELSE None,
         iter |-> step.iter]

\* RescaleIterator::next: self.ring_iter.next().map(closure)
rescale_next(rs, i, r) ==
    LET step == iter_next(i, r)
    IN  [result |-> IF step.result.some
                    THEN Some(rescale(step.result.v, rs.current, rs.desired))
                    ELSE None,
         iter |-> step.iter]

(***************************************************************************)
(* avg_std.rs                                                              *)
(***************************************************************************)
\* 2^16: `x as u16` keeps x modulo 2^16
U16Modulus == 65536

\* self.len() as u16
as_u16(x) == x % U16Modulus

\* what `for el in self.iter()` visits, in order: the element at
\* (start + count) % len for count = 0 .. len - 1 (RingIterator::next)
iter_seq(r) ==
    LET i == iter(r)
    IN  Array([j \in 1 .. len(r) |-> slot(r, (i.start + (j - 1)) % len(r))])

\* the integer s[lo] + ... + s[hi], split in halves to keep the evaluation shallow
RECURSIVE int_sum(_, _, _)
int_sum(s, lo, hi) ==
    IF lo > hi THEN 0
    ELSE IF lo = hi THEN s[lo]
    ELSE LET mid == (lo + hi) \div 2
         IN  int_sum(s, lo, mid) + int_sum(s, mid + 1, hi)

\* `acc += el.into()` over the elements of s, from acc = 0.0: every el.into()
\* is an integer and the sum is exact, so acc is the integer sum as an f32
acc_sum(s) == into_f32(int_sum(s, 1, Len(s)))

\* Ring::avg
avg(r) ==
    LET acc == acc_sum(iter_seq(r))
        l == into_f32(as_u16(len(r)))
    IN  f_div(acc, l)

\* one turn of the loop of var: `let val = el.into() - avg; acc += val * val;`
var_step(acc, el, a) ==
    LET val == f_sub(into_f32(el), a)
    IN  f_add(acc, f_mul(val, val))

\* the loop of var over s[k..], one turn after the other
RECURSIVE var_loop(_, _, _, _)
var_loop(s, k, acc, a) ==
    IF k > Len(s) THEN acc
    ELSE var_loop(s, k + 1, var_step(acc, s[k], a), a)

\* the integer sum of (s[i] * d - n)^2 for i in lo..hi, split in halves
RECURSIVE int_sq_sum(_, _, _, _, _)
int_sq_sum(s, n, d, lo, hi) ==
    IF lo > hi THEN 0
    ELSE IF lo = hi THEN (s[lo] * d - n) * (s[lo] * d - n)
    ELSE LET mid == (lo + hi) \div 2
         IN  int_sq_sum(s, n, d, lo, mid) + int_sq_sum(s, n, d, mid + 1, hi)

\* acc after the loop of var over s, from acc = 0.0, in one expression: with a
\* finite avg = n/d every square is (el * d - n)^2 / d^2; with an infinite avg
\* every val is infinite and so is the sum; a NaN avg makes every val NaN
\* (SpecFrame checks this against var_loop, VarAccIsLoop)
var_acc(s, a) ==
    IF Len(s) = 0 THEN Fin(0, 1)
    ELSE IF is_nan(a) THEN NaN
    ELSE IF is_inf(a) THEN PInf
    ELSE Fin(int_sq_sum(s, a.n, a.d, 1, Len(s)), a.d * a.d)

\* a mutant of var: the divisor is len - 1 (the sample variance)
var_sample(r, avg_opt) ==
    LET a == IF avg_opt.some THEN avg_opt.v ELSE avg(r)
        acc == var_acc(iter_seq(r), a)
        l == into_f32(as_u16(len(r)) - 1)
    IN  f_div(acc, l)

\* Ring::var
var(r, avg_opt) ==
    LET a == IF avg_opt.some THEN avg_opt.v ELSE avg(r)
        acc == var_acc(iter_seq(r), a)
        l == into_f32(as_u16(len(r)))
    IN  f_div(acc, l)

(***************************************************************************)
(* hist.rs: Hist::draw_lines over a Ring<i16, N>.  A Hist is               *)
(* [upper_left |-> Point, size |-> Size]; a Point is [x, y] (i32), a Size  *)
(* is [width, height] (u32).                                               *)
(***************************************************************************)
Point(x, y) == [x |-> x, y |-> y]

Size(width, height) == [width |-> width, height |-> height]

\* Hist::new
Hist(upper_left, sz) == [upper_left |-> upper_left, size |-> sz]

\* ThreePoints::default()
ThreePointsDefault == <<Point(0, 0), Point(0, 0), Point(0, 0)>>

\* `ring.size() as u32`: the value modulo 2^32, which is the value itself for
\* every capacity below 2^31
as_u32(x) == x

\* `self.size.height as i16`: the low 16 bits, as a signed number
height_as_i16(height) == wrap_T(height)

\* `resc as i32`: NaN is 0, the infinities saturate, a finite value is
\* truncated toward zero
as_i32(a) ==
    CASE a.k = "nan" -> 0
      [] a.k = "pinf" -> 2147483647
      [] a.k = "ninf" -> -2147483647 - 1
      [] OTHER -> IF a.n >= 0 THEN a.n \div a.d ELSE -((-a.n) \div a.d)

\* Range::new(min, max): Some(range) when min <= max, None otherwise
Range_new(lo, hi) == IF lo <= hi THEN Some(Range(lo, hi)) ELSE None

\* Error::RingSizeMismatch { width, ring_size }
RingSizeMismatch(width, ring_size) ==
    [k |-> "Err", e |-> "RingSizeMismatch", width |-> width, ring_size |-> ring_size]

\* Ok(result)
Ok(result) == [k |-> "Ok", lines |-> result]

\* the usize sum `upper_left.x as usize + width as usize` overflows: a negative
\* x becomes 2^64 + x, and adding a width of at least -x passes 2^64
x_overflows(hist) ==
    hist.upper_left.x < 0 /\ hist.upper_left.x + hist.size.width >= 0

\* x of column i: (upper_left.x as usize + width as usize - total_elements + i)
\* as i32, which is this value whether or not the sum wrapped
column_x(hist, total_elements, i) ==
    hist.upper_left.x + hist.size.width - total_elements + i

\* the [a, b, c] of column i (counted from 0), for the rescaled value v
three_points(hist, total_elements, i, v) ==
    LET baseline == hist.upper_left.y + hist.size.height
        x == column_x(hist, total_elements, i)
    IN  <<Point(x, baseline),
          Point(x, baseline - as_i32(v)),
          Point(x, baseline - hist.size.height + 1)>>

\* draw_lines panics: the unwrap of Range::new, a delta() that overflows T or
\* the usize sum of x, the last two in a build that checks overflow
draw_lines_panics(hist, r, n, overflow_checks) ==
    /\ as_u32(size(n)) = hist.size.width
    /\ len(r) > 0
    /\ LET desired_range == Range_new(1, height_as_i16(hist.size.height))
       IN  \/ ~desired_range.some
           \/ /\ overflow_checks
              /\ \/ delta_overflows(range(r).v)
                 \/ delta_overflows(desired_range.v)
                 \/ x_overflows(hist)

\* Hist::draw_lines, when it does not panic
draw_lines(hist, r, n) ==
    IF as_u32(size(n)) # hist.size.width
    THEN RingSizeMismatch(hist.size.width, size(n))
    ELSE LET total_elements == len(r)
             s == iter_seq(r)
         IN  Ok([i \in 1 .. n |->
                   IF i <= total_elements
                   THEN three_points(hist, total_elements, i - 1,
                            rescale(s[i], range(r).v,
                                Range_new(1, height_as_i16(hist.size.height)).v))
                   ELSE ThreePointsDefault])

(***************************************************************************)
(* The caller: one thread that owns a Ring and calls its methods.         *)
(***************************************************************************)
NoResc == [live |-> FALSE, current |-> [min |-> 0, max |-> 0],
           desired |-> [min |-> 0, max |-> 0]]

NoRet == [op |-> "new"]

Init ==
    /\ N \in 0 .. MaxN
    /\ ring = new(N)
    /\ it = NoIter
    /\ resc = NoResc
    /\ ret = NoRet
    /\ appended = <<>>
    /\ yielded = <<>>
    /\ panicked = FALSE

\* circ.append(el): needs &mut self, so no iterator borrows the ring
CallAppend(el) ==
    /\ ~panicked
    /\ ~it.live
    /\ IF append_panics(ring)
       THEN /\ panicked' = TRUE
            /\ ret' = [op |-> "append_panic"]
            /\ UNCHANGED <<ring, appended>>
       ELSE /\ ring' = append(ring, el)
            /\ appended' = Append(appended, el)
            /\ ret' = [op |-> "append"]
            /\ UNCHANGED panicked
    /\ UNCHANGED <<N, it, resc, yielded>>

\* circ.len()
CallLen ==
    /\ ~panicked
    /\ ret' = [op |-> "len", n |-> len(ring)]
    /\ UNCHANGED <<N, ring, it, resc, appended, yielded, panicked>>

\* circ.is_empty()
CallIsEmpty ==
    /\ ~panicked
    /\ ret' = [op |-> "is_empty", b |-> is_empty(ring)]
    /\ UNCHANGED <<N, ring, it, resc, appended, yielded, panicked>>

\* circ.size()
CallSize ==
    /\ ~panicked
    /\ ret' = [op |-> "size", n |-> size(N)]
    /\ UNCHANGED <<N, ring, it, resc, appended, yielded, panicked>>

\* a mutant of the caller of last: the value read is taken out of the ring
CallLast_take ==
    /\ ~panicked
    /\ ret' = [op |-> "last", opt |-> last(ring)]
    /\ ring' = [ring EXCEPT !.len = IF ring.len = 0 THEN 0 ELSE ring.len - 1]
    /\ UNCHANGED <<N, it, resc, appended, yielded, panicked>>

\* circ.last()
CallLast ==
    /\ ~panicked
    /\ ret' = [op |-> "last", opt |-> last(ring)]
    /\ UNCHANGED <<N, ring, it, resc, appended, yielded, panicked>>

\* circ.range()
CallRange ==
    /\ ~panicked
    /\ ret' = [op |-> "range", opt |-> range(ring)]
    /\ UNCHANGED <<N, ring, it, resc, appended, yielded, panicked>>

\* circ.avg()
CallAvg ==
    /\ ~panicked
    /\ ret' = [op |-> "avg", f |-> avg(ring)]
    /\ UNCHANGED <<N, ring, it, resc, appended, yielded, panicked>>

\* circ.var(avg_opt)
CallVar(avg_opt) ==
    /\ ~panicked
    /\ ret' = [op |-> "var", arg |-> avg_opt, f |-> var(ring, avg_opt)]
    /\ UNCHANGED <<N, ring, it, resc, appended, yielded, panicked>>

\* let mut iter = circ.iter()
CallIter ==
    /\ ~panicked
    /\ ~it.live
    /\ it' = iter(ring)
    /\ yielded' = <<>>
    /\ ret' = [op |-> "iter"]
    /\ UNCHANGED <<N, ring, resc, appended, panicked>>

\* iter.next()
CallIterNext ==
    /\ ~panicked
    /\ it.live
    /\ ~resc.live
    /\ LET step == iter_next(it, ring)
       IN  /\ it' = step.iter
           /\ ret' = [op |-> "iter_next", opt |-> step.result]
           /\ yielded' = IF step.result.some
                         THEN Append(yielded, step.result.v)
                         ELSE yielded
    /\ UNCHANGED <<N, ring, resc, appended, panicked>>

\* let mut rescaled = circ.rescaled_iter(current, desired)
CallRescaledIter(current, desired) ==
    /\ ~panicked
    /\ ~it.live
    /\ resc' = rescaled_iter(ring, current, desired)
    /\ it' = iter(ring)
    /\ yielded' = <<>>
    /\ ret' = [op |-> "rescaled_iter"]
    /\ UNCHANGED <<N, ring, appended, panicked>>

\* rescaled.next(), in a build with or without overflow checks
CallRescaleNext(overflow_checks) ==
    /\ ~panicked
    /\ resc.live
    /\ LET step == rescale_next(resc, it, ring)
       IN  IF step.result.some /\ rescale_panics(resc.current, resc.desired, overflow_checks)
           THEN /\ panicked' = TRUE
                /\ ret' = [op |-> "rescale_panic"]
                /\ UNCHANGED <<it, yielded>>
           ELSE /\ it' = step.iter
                /\ ret' = [op |-> "rescale_next", opt |-> step.result]
                /\ yielded' = IF step.result.some
                              THEN Append(yielded, step.result.v)
                              ELSE yielded
                /\ UNCHANGED panicked
    /\ UNCHANGED <<N, ring, resc, appended>>

\* Hist::new(upper_left, sz).draw_lines(&circ), in a build with or without
\* overflow checks
CallDrawLines(upper_left, sz, overflow_checks) ==
    /\ ~panicked
    /\ LET hist == Hist(upper_left, sz)
       IN  IF draw_lines_panics(hist, ring, N, overflow_checks)
           THEN /\ panicked' = TRUE
                /\ ret' = [op |-> "draw_lines_panic", hist |-> hist]
           ELSE /\ ret' = [op |-> "draw_lines", hist |-> hist,
                           res |-> draw_lines(hist, ring, N)]
                /\ UNCHANGED panicked
    /\ UNCHANGED <<N, ring, it, resc, appended, yielded>>

\* the iterator goes out of scope: the borrow of the ring ends
DropIter ==
    /\ ~panicked
    /\ it.live
    /\ it' = NoIter
    /\ resc' = NoResc
    /\ yielded' = <<>>
    /\ ret' = [op |-> "drop"]
    /\ UNCHANGED <<N, ring, appended, panicked>>

\* the averages the callers hand to var: none, a whole one and a fraction
VarArgs == {None, Some(Fin(1, 1)), Some(Fin(1, 2))}

Next ==
    \/ \E el \in CoreVals : Len(appended) < MaxAppends /\ CallAppend(el)
    \/ CallLen
    \/ CallIsEmpty
    \/ CallSize
    \/ CallLast
    \/ CallRange
    \/ CallAvg
    \/ CallIter
    \/ CallIterNext
    \/ DropIter

Spec == Init /\ [][Next]_vars

\* the source ranges of SpecRescale: min <= max, as Range expects
SourceRanges ==
    {Range(lo, hi) : lo \in RescaleVals, hi \in RescaleVals} \ {rg \in {Range(lo, hi) : lo \in RescaleVals, hi \in RescaleVals} : rg.min > rg.max}

\* the target ranges of SpecRescale: a window, a degenerate one and the widest
TargetRanges == {Range(20, 30), Range(25, 25), Range(TMin, TMax)}

NextRescale ==
    \/ \E el \in RescaleVals : Len(appended) < MaxRescaleAppends /\ CallAppend(el)
    \/ \E current \in SourceRanges, desired \in TargetRanges :
          CallRescaledIter(current, desired)
    \/ \E overflow_checks \in BOOLEAN : CallRescaleNext(overflow_checks)
    \/ DropIter

SpecRescale == Init /\ [][NextRescale]_vars

\* the target ranges whose span fits T: no desired.delta() overflows
WindowRanges == {rg \in TargetRanges : ~delta_overflows(rg)}

\* the callers of SpecRescale that rescale into a window that fits T
NextRescaleWindow ==
    \/ \E el \in RescaleVals : Len(appended) < MaxRescaleAppends /\ CallAppend(el)
    \/ \E current \in SourceRanges, desired \in WindowRanges :
          CallRescaledIter(current, desired)
    \/ \E overflow_checks \in BOOLEAN : CallRescaleNext(overflow_checks)
    \/ DropIter

SpecRescaleWindow == Init /\ [][NextRescaleWindow]_vars

\* the capacities of SpecAvg: the first two on which len() can reach 2^16
AvgCaps == {U16Modulus, U16Modulus + 1}

\* the numbers of appends SpecAvg starts after: one less than 2^16, and 2^16
AvgPrefills == {U16Modulus - 1, U16Modulus}

\* the ring after k <= n appends of el to new(n): what append() leaves when
\* called k times (Spec checks this on the small capacities, PrefilledIsReached)
prefilled(n, k, el) ==
    [data |-> Array([i \in 1 .. n |-> IF i <= k THEN el ELSE Default]),
     next |-> k % n,
     len |-> Min(k, n)]

\* a large ring that has taken k appends of one value
InitAvg ==
    /\ N \in AvgCaps
    /\ \E el \in AvgVals, k \in AvgPrefills :
          /\ ring = prefilled(N, k, el)
          /\ appended = Array([j \in 1 .. k |-> el])
    /\ it = NoIter
    /\ resc = NoResc
    /\ ret = NoRet
    /\ yielded = <<>>
    /\ panicked = FALSE

NextAvg ==
    \/ \E el \in AvgVals :
          Len(appended) < U16Modulus + MaxAvgAppends /\ CallAppend(el)
    \/ CallAvg
    \/ CallLen
    \/ CallIsEmpty
    \/ CallLast

SpecAvg == InitAvg /\ [][NextAvg]_vars

\* the values the callers of SpecHist append
HistVals == {TMin, 1, TMax}

\* the windows the callers of SpecHist draw into
HistWidths == 0 .. MaxN + 1

HistHeights == {1, 5}

HistCorners == {Point(0, 0), Point(-1, 0)}

NextHist ==
    \/ \E el \in HistVals : Len(appended) < MaxHistAppends /\ CallAppend(el)
    \/ \E upper_left \in HistCorners, width \in HistWidths, height \in HistHeights,
          overflow_checks \in BOOLEAN :
          CallDrawLines(upper_left, Size(width, height), overflow_checks)
    \/ CallSize
    \/ CallLen

SpecHist == Init /\ [][NextHist]_vars

\* the values the callers of SpecFrame append, and the ranges they rescale with
FrameVals == {-1, 1}

FrameSources == {Range(-1, 1), Range(1, 1)}

FrameTargets == {Range(20, 30)}

\* a caller of every operation of the ring
NextFrame ==
    \/ \E el \in FrameVals : Len(appended) < MaxFrameAppends /\ CallAppend(el)
    \/ CallLen
    \/ CallIsEmpty
    \/ CallSize
    \/ CallLast
    \/ CallRange
    \/ CallAvg
    \/ \E avg_opt \in VarArgs : CallVar(avg_opt)
    \/ CallIter
    \/ CallIterNext
    \/ \E current \in FrameSources, desired \in FrameTargets :
          CallRescaledIter(current, desired)
    \/ \E overflow_checks \in BOOLEAN : CallRescaleNext(overflow_checks)
    \/ DropIter

SpecFrame == Init /\ [][NextFrame]_vars

\* the capacity of SpecVar: the first on which len() can reach 2^16
VarCaps == {U16Modulus}

\* a large ring that has taken k appends of one value
InitVar ==
    /\ N \in VarCaps
    /\ \E el \in AvgVals, k \in AvgPrefills :
          /\ ring = prefilled(N, k, el)
          /\ appended = Array([j \in 1 .. k |-> el])
    /\ it = NoIter
    /\ resc = NoResc
    /\ ret = NoRet
    /\ yielded = <<>>
    /\ panicked = FALSE

NextVar ==
    \/ \E el \in AvgVals :
          Len(appended) < U16Modulus + MaxAvgAppends /\ CallAppend(el)
    \/ \E avg_opt \in VarArgs : CallVar(avg_opt)
    \/ CallAvg
    \/ CallLen
    \/ CallIsEmpty
    \/ CallLast

SpecVar == InitVar /\ [][NextVar]_vars

(***************************************************************************)
(* Properties of the ring (checked under Spec).                            *)
(***************************************************************************)
\* the last n values of the sequence s, oldest first
LastN(s, n) == SubSeq(s, Len(s) - n + 1, Len(s))

\* the values a ring of capacity N holds after the appends of the history
Valid == LastN(appended, Min(Len(appended), N))

\* a plain RingIterator is held (not one inside a RescaleIterator)
PlainIter == it.live /\ ~resc.live

\* what the held iterator has done so far agrees with the sequence `want`:
\* it has yielded the first it.count values of `want`, a returned Some is the
\* value just yielded, None is returned only after all of `want`, and after
\* all of `want` the next call returns None
IterAgrees(want) ==
    /\ it.count <= Len(want)
    /\ yielded = SubSeq(want, 1, it.count)
    /\ ret.op = "iter_next" /\ ret.opt.some =>
          it.count > 0 /\ ret.opt.v = want[it.count]
    /\ ret.op = "iter_next" /\ ~ret.opt.some => yielded = want
    /\ yielded = want => ~iter_next(it, ring).result.some

\* C1: after k > N appends to a new ring, len() is N and iter() yields exactly
\* the last N appended values, oldest first, and then None
C1_FullRingIter ==
    Len(appended) > N =>
        /\ len(ring) = N
        /\ ret.op = "len" => ret.n = N
        /\ PlainIter => IterAgrees(LastN(appended, N))

\* C1 witness: the cursor has wrapped more than twice and an iterator has
\* yielded the last N values and returned None
C1_Witness ==
    /\ N >= 2
    /\ Len(appended) > 2 * N
    /\ ring.next # 0
    /\ PlainIter
    /\ ret.op = "iter_next" /\ ~ret.opt.some
    /\ yielded = LastN(appended, N)

\* C2: after k <= N appends to a new ring, len() is k and iter() yields exactly
\* the k appended values in insertion order, and then None
C2_FillingRingIter ==
    Len(appended) <= N =>
        /\ len(ring) = Len(appended)
        /\ ret.op = "len" => ret.n = Len(appended)
        /\ PlainIter => IterAgrees(appended)

\* C2 witness: a ring that is not yet full has been iterated to the end
C2_Witness ==
    /\ Len(appended) = 2
    /\ N = 3
    /\ PlainIter
    /\ ret.op = "iter_next" /\ ~ret.opt.some
    /\ yielded = appended

\* C3: last() returns None if no append has ever happened, and otherwise
\* Some(v) with v the value of the most recent append
C3_Last ==
    ret.op = "last" =>
        IF appended = <<>>
        THEN ~ret.opt.some
        ELSE ret.opt.some /\ ret.opt.v = appended[Len(appended)]

\* C3 witness: last() was called when the write cursor had just wrapped to 0
C3_Witness ==
    /\ ret.op = "last"
    /\ ret.opt.some
    /\ N >= 2
    /\ ring.next = 0
    /\ Len(appended) > N
    /\ appended[Len(appended)] # slot(ring, 0)

\* C4: 0 <= len() <= N always; no step decreases len(); an append while
\* len() < N increases it by exactly 1; once len() = N it stays N; and
\* is_empty() is true exactly before the first append
C4_LenStep ==
    /\ 0 <= len(ring') /\ len(ring') <= N
    /\ len(ring') >= len(ring)
    /\ appended' # appended /\ len(ring) < N => len(ring') = len(ring) + 1
    /\ appended' = appended => len(ring') = len(ring)
    /\ len(ring) = N => len(ring') = N
    /\ is_empty(ring') <=> appended' = <<>>
    /\ ret'.op = "is_empty" => (ret'.b <=> appended' = <<>>)
    /\ ret'.op = "len" => ret'.n = len(ring')

C4_LenMonotone ==
    /\ 0 <= len(ring) /\ len(ring) <= N
    /\ is_empty(ring) <=> appended = <<>>
    /\ [][C4_LenStep]_vars

\* C4 witness: a full ring has taken a further append, and is_empty() answered
C4_Witness ==
    /\ N >= 2
    /\ Len(appended) > N
    /\ len(ring) = N
    /\ ret.op = "is_empty"
    /\ ~ret.b

\* the set of values of a sequence
Elems(s) == {s[i] : i \in 1 .. Len(s)}

\* C5: range() is None exactly on an empty ring; otherwise min <= x <= max
\* for every valid element x, and min and max are valid elements themselves
C5_Range ==
    ret.op = "range" =>
        /\ ret.opt.some <=> appended # <<>>
        /\ ret.opt.some =>
              /\ \A x \in Elems(Valid) : ret.opt.v.min <= x /\ x <= ret.opt.v.max
              /\ ret.opt.v.min \in Elems(Valid)
              /\ ret.opt.v.max \in Elems(Valid)

\* C5 witness: range() on a ring whose evicted values reach below and above
\* every value it still holds
C5_Witness ==
    /\ ret.op = "range"
    /\ ret.opt.some
    /\ Len(appended) > N
    /\ \E i \in 1 .. Len(appended) - N : appended[i] > ret.opt.v.max
    /\ \E i \in 1 .. Len(appended) - N : appended[i] < ret.opt.v.min

(***************************************************************************)
(* Properties of the rescale iterator (checked under SpecRescale).         *)
(***************************************************************************)
\* the rescale law in exact arithmetic, no operation done in T:
\* (x - source.min) / (source.max - source.min) * (target.max - target.min) + target.min
Linear(x, source, target) ==
    f_add(f_mul(f_div(Fin(x - source.min, 1), Fin(source.max - source.min, 1)),
                Fin(target.max - target.min, 1)),
          Fin(target.min, 1))

\* (target.min + target.max) / 2
Midpoint(target) == Fin(target.min + target.max, 2)

\* the last call of the RescaleIterator returned Some
RescaleOutput == resc.live /\ ret.op = "rescale_next" /\ ret.opt.some

\* the element the last call of the RescaleIterator pulled from the ring
Pulled == Valid[it.count]

\* C6: with a source range with min < max and any target range, every element
\* is mapped by the linear law (source.min to target.min, source.max to target.max)
C6_RescaleLinear ==
    resc.live /\ resc.current.min < resc.current.max =>
        /\ ret.op # "rescale_panic"
        /\ RescaleOutput => ret.opt.v = Linear(Pulled, resc.current, resc.desired)

\* all valid elements of the non-empty ring are equal and the source range is
\* the ring's own range()
OwnDegenerateSource ==
    /\ resc.live
    /\ len(ring) > 0
    /\ \A x \in Elems(Valid) : x = Valid[1]
    /\ resc.current = range(ring).v

\* C7: when all valid elements are equal and the source range is the ring's own
\* range(), every output is the midpoint of the target range
C7_ConstantRingMidpoint ==
    OwnDegenerateSource =>
        /\ ret.op # "rescale_panic"
        /\ RescaleOutput => ret.opt.v = Midpoint(resc.desired)

\* C8: when the source range is degenerate, every element (equal to source.min
\* or not) is mapped to the midpoint of the target range, and no output is NaN
\* or infinite
C8_DegenerateSourceMidpoint ==
    resc.live /\ resc.current.max = resc.current.min =>
        /\ ret.op # "rescale_panic"
        /\ RescaleOutput =>
              /\ ret.opt.v = Midpoint(resc.desired)
              /\ ~is_nan(ret.opt.v)
              /\ ~is_inf(ret.opt.v)

RECURSIVE SeqSum(_, _, _)
SeqSum(s, lo, hi) ==
    IF lo > hi THEN 0
    ELSE IF lo = hi THEN s[lo]
    ELSE LET mid == (lo + hi) \div 2
         IN  SeqSum(s, lo, mid) + SeqSum(s, mid + 1, hi)

\* the sum of the valid elements divided by their number
Mean == Fin(SeqSum(Valid, 1, Len(Valid)), Len(Valid))

\* C10: on every non-empty ring, of any capacity, avg() is the sum of the valid
\* elements divided by len()
C10_AvgIsMean ==
    ret.op = "avg" /\ len(ring) > 0 => ret.f = Mean

\* the ring after k <= N appends of one value is prefilled(N, k, value)
PrefilledIsReached ==
    /\ N > 0
    /\ Len(appended) <= N
    /\ \A j \in 1 .. Len(appended) : appended[j] = appended[1]
    => ring = prefilled(N, Len(appended), IF appended = <<>> THEN Default ELSE appended[1])

\* the closed form of the iteration is what next() yields, call by call
IterSeqIsDrain == iter_seq(ring) = iter_all(ring)

\* while len() < 2^16 the cast changes nothing and avg() is the mean
AvgIsMeanBelowCast ==
    ret.op = "avg" /\ len(ring) > 0 /\ len(ring) < U16Modulus => ret.f = Mean

(***************************************************************************)
(* Properties of the variance (checked under SpecVar and SpecFrame).       *)
(***************************************************************************)
\* the mean var works with: the override when Some, avg() when None
VarMean == IF ret.arg.some THEN ret.arg.v ELSE avg(ring)

\* the sum of (x - m)^2 over the valid elements, for a finite m
RECURSIVE SqSum(_, _, _, _)
SqSum(s, m, lo, hi) ==
    IF lo > hi THEN 0
    ELSE IF lo = hi THEN (s[lo] * m.d - m.n) * (s[lo] * m.d - m.n)
    ELSE LET mid == (lo + hi) \div 2
         IN  SqSum(s, m, lo, mid) + SqSum(s, m, mid + 1, hi)

\* the population variance of the valid elements around m: the sum of
\* (x - m)^2 divided by their number (infinite around an infinite m)
PopVar(m) ==
    IF is_nan(m) THEN NaN
    ELSE IF is_inf(m) THEN PInf
    ELSE Fin(SqSum(Valid, m, 1, Len(Valid)), m.d * m.d * Len(Valid))

\* C11: on every non-empty ring var(m) is the sum of (x - mean)^2 over the valid
\* elements divided by len(), with mean the override when Some and avg() when
\* None; so var(None) is var(Some(avg()))
C11_VarIsPopulationVariance ==
    ret.op = "var" /\ len(ring) > 0 =>
        /\ ret.f = PopVar(VarMean)
        /\ ~ret.arg.some => ret.f = var(ring, Some(avg(ring)))

\* the one-expression accumulation of var is what the loop computes, turn by turn
VarAccIsLoop ==
    \A avg_opt \in VarArgs \cup {Some(avg(ring))} :
        avg_opt.some =>
            var_acc(iter_seq(ring), avg_opt.v)
                = var_loop(iter_all(ring), 1, Fin(0, 1), avg_opt.v)

\* while len() < 2^16 the cast changes nothing and var() is the population variance
VarIsPopVarBelowCast ==
    ret.op = "var" /\ len(ring) > 0 /\ len(ring) < U16Modulus => ret.f = PopVar(VarMean)

(***************************************************************************)
(* Properties of append and of the write cursor (checked under Spec).      *)
(***************************************************************************)
\* a step in which an append() has completed
Appended == appended' # appended

\* C12: on every capacity, 0 included, no call of append panics, and a call
\* stores its value at the write-cursor slot, raises len by one up to N and
\* advances the cursor modulo N
C12_AppendStep ==
    /\ ret'.op # "append_panic"
    /\ Appended =>
          /\ ring'.data = [ring.data EXCEPT ![ring.next + 1] = appended'[Len(appended')]]
          /\ ring'.len = Min(N, ring.len + 1)
          /\ ring'.next = (ring.next + 1) % N

C12_AppendNeverFails == [][C12_AppendStep]_vars

(***************************************************************************)
(* Properties of the histogram consumer (checked under SpecHist).          *)
(***************************************************************************)
\* C13: draw_lines returns Err(RingSizeMismatch{width, ring_size}) with the
\* window width and the capacity exactly when size() differs from the window
\* width, whatever the ring holds, and returns Ok with one entry per slot
\* otherwise, also for an empty ring; no call ends any other way
C13_DrawLinesSizeCheck ==
    /\ ret.op # "draw_lines_panic"
    /\ ret.op = "draw_lines" =>
          IF size(N) # ret.hist.size.width
          THEN ret.res = RingSizeMismatch(ret.hist.size.width, N)
          ELSE ret.res.k = "Ok" /\ Len(ret.res.lines) = N

\* every call of draw_lines that returns, returns as C13 says
DrawLinesSizeCheckOnReturn ==
    ret.op = "draw_lines" =>
        IF size(N) # ret.hist.size.width
        THEN ret.res = RingSizeMismatch(ret.hist.size.width, N)
        ELSE ret.res.k = "Ok" /\ Len(ret.res.lines) = N

(***************************************************************************)
(* The frame of the queries (checked under SpecFrame).                     *)
(***************************************************************************)
\* C14: a step that is not an append leaves the storage, the write cursor and
\* the length of the ring as they were, whichever of len, is_empty, size, last,
\* iter, next, range, rescaled_iter, avg or var it calls; and range() called
\* again with no append in between returns the same min and max
C14_QueryStep ==
    /\ ~Appended =>
          /\ ring'.data = ring.data
          /\ ring'.next = ring.next
          /\ ring'.len = ring.len
          /\ range(ring') = range(ring)
    /\ ret.op = "range" /\ ret'.op = "range" => ret'.opt = ret.opt

C15_EvictStep ==
    Appended /\ len(ring) = N =>
        /\ iter_all(ring') = Tail(iter_all(ring)) \o <<appended'[Len(appended')]>>
        /\ Len(iter_all(ring')) = N
        /\ ring'.next = (ring.next + 1) % N

C15_AppendEvictsOldest == [][C15_EvictStep]_vars

\* C15 witness: a ring of capacity 3 that was full has taken two more appends
\* and holds -1, 0, 1, the oldest at slot 2
C15_Witness ==
    /\ ret.op = "append"
    /\ N = 3
    /\ Len(appended) = N + 2
    /\ ring.next = 2
    /\ iter_all(ring) = <<-1, 0, 1>>
    /\ appended[1] = 1 /\ appended[2] = 1

(***************************************************************************)
(* The iterator (checked under Spec).                                      *)
(***************************************************************************)
\* the last call of next() on the held iterator returned None
ReturnedNone == ret.op = "iter_next" /\ ~ret.opt.some

\* what C16 says of a state in which a plain iterator is held
C16_IterState ==
    PlainIter =>
        /\ Len(yielded) = it.count
        /\ it.count <= len(ring)
        /\ ret.op = "iter" =>
              /\ it.count = 0
              /\ len(ring) > 0 => iter_next(it, ring).result = Some(Valid[1])
        /\ ret.op = "iter_next" /\ ret.opt.some => it.count > 0
        /\ ReturnedNone => Len(yielded) = len(ring)
        /\ Len(yielded) < len(ring) => iter_next(it, ring).result.some

\* C16: an iterator returns Some exactly len() times and then None; after a
\* None every further next() returns None and yields nothing more; and a fresh
\* iter() starts again from the oldest element
C16_IterStep ==
    /\ C16_IterState'
    /\ ReturnedNone /\ ret'.op = "iter_next" =>
          /\ ~ret'.opt.some
          /\ yielded' = yielded
    /\ Len(yielded) = len(ring) /\ ret'.op = "iter_next" /\ PlainIter => ~ret'.opt.some

C16_IterFinite == [][C16_IterStep]_vars

\* C16 witness: on a wrapped ring of capacity 2 the iterator has yielded both
\* elements and returned None
C16_Witness ==
    /\ PlainIter
    /\ ReturnedNone
    /\ N = 2
    /\ Len(appended) = 5
    /\ ring.next = 1
    /\ yielded = <<1, -1>>

(***************************************************************************)
(* The arithmetic of the rescale (checked under SpecRescale).              *)
(***************************************************************************)
\* max - min taken in floating point, after the conversion of the bounds
FloatDelta(rg) == f_sub(into_f32(rg.max), into_f32(rg.min))

\* the rescale with both spans taken in floating point
RescaleInFloat(x, source, target) ==
    LET p0 == f_div(f_sub(into_f32(x), into_f32(source.min)), FloatDelta(source))
        p == IF is_nan(p0) THEN Half ELSE p0
    IN  f_add(f_mul(p, FloatDelta(target)), into_f32(target.min))

\* C17: for all source and target ranges with bounds in T, also those whose
\* span exceeds T's maximum, the rescale takes max - min in floating point:
\* no call panics on an overflow, no span wraps around, and with min < max the
\* output follows the linear law
C17_DeltaInFloatingPoint ==
    resc.live =>
        /\ ret.op # "rescale_panic"
        /\ RescaleOutput =>
              /\ ret.opt.v = RescaleInFloat(Pulled, resc.current, resc.desired)
              /\ resc.current.min < resc.current.max =>
                    RescaleInFloat(Pulled, resc.current, resc.desired)
                        = Linear(Pulled, resc.current, resc.desired)

\* where no span overflows T the rescale is the one with the spans in floating point
RescaleInFloatWithinT ==
    /\ RescaleOutput
    /\ ~delta_overflows(resc.current)
    /\ ~delta_overflows(resc.desired)
    => ret.opt.v = RescaleInFloat(Pulled, resc.current, resc.desired)

(***************************************************************************)
(* The write cursor (checked under Spec).                                  *)
(***************************************************************************)
\* C18: on every capacity N >= 1 the write cursor is in 0 .. N - 1 and is the
\* number of appends modulo N; it equals len while len < N; and a cursor at 0
\* with len > 0 means the ring is full, so that last() reads slot N - 1 of a
\* full ring
C18_CursorInvariant ==
    N >= 1 =>
        /\ 0 <= ring.next /\ ring.next < N
        /\ ring.next = Len(appended) % N
        /\ ring.len < N => ring.next = ring.len
        /\ ring.next = 0 /\ ring.len > 0 => ring.len = N
        /\ ring.next = 0 /\ ring.len > 0 =>
              last(ring) = Some(slot(ring, N - 1)) /\ slot(ring, N - 1) = appended[Len(appended)]

\* C18 witness: the cursor of a ring of capacity 3 after 7 appends, the last
\* one of a value unlike the one before
C18_Witness ==
    /\ N = 3
    /\ Len(appended) = 7
    /\ ring.next = 1
    /\ ring.len = 3
    /\ ret.op = "append"
    /\ appended[7] # appended[6]

\* on every capacity N >= 1 an append completes as C12 says
AppendStepFromOne == [][N >= 1 => C12_AppendStep]_vars

(***************************************************************************)
(* The index of the iterator (checked under Spec).                         *)
(***************************************************************************)
\* C19: whatever the ring and however many next() calls an iterator has taken,
\* the next call either finds count == len and returns None without taking a
\* remainder, or has len > 0 and reads the slot (start + count) % len, which
\* is below N and holds the value an append wrote as the next valid element
C19_IterIndexSafe ==
    it.live =>
        IF it.count = len(ring)
        THEN iter_next(it, ring).result = None
        ELSE /\ len(ring) > 0
             /\ it.count < len(ring)
             /\ 0 <= current_index(it, ring)
             /\ current_index(it, ring) < N
             /\ current_index(it, ring) < Len(appended)
             /\ slot(ring, current_index(it, ring)) = Valid[it.count + 1]
             /\ iter_next(it, ring).result = Some(Valid[it.count + 1])

\* C19 witness: on a full ring of capacity 3 with the cursor at 2, the third
\* next() is about to read slot (2 + 2) % 3 = 1, and the slots differ
C19_Witness ==
    /\ PlainIter
    /\ N = 3
    /\ len(ring) = 3
    /\ it.start = 2
    /\ it.count = 2
    /\ current_index(it, ring) = 1
    /\ slot(ring, 1) # slot(ring, 2)
    /\ ret.op = "iter_next"

====
